---- MODULE Spec2Model ----
(***************************************************************************)
(* Model of the evaluation engine of SimCDE, experiment2/model/loss.py:    *)
(* the EvaluationResult record, the clustering scores get_accuracy and     *)
(* purity_score, skip_diag_strided, the ranking scores get_rankings,       *)
(* mean_reciprocal_rank and mean_average_precision, and the orchestrator   *)
(* Loss.evaluation_during_training.                                        *)
(***************************************************************************)
EXTENDS Integers, Sequences, FiniteSets, TLC

(***************************************************************************)
(* float64 arithmetic.  Every score of loss.py is a numpy/Python float64.  *)
(* A finite non-negative float is held exactly, as a fixed-point number of *)
(* six limbs in base 2^15: limb 1 is the integer part, limbs 2..6 are 75   *)
(* fraction bits.  Each operation computes the exact result on that grid   *)
(* and rounds it to MantBits significant bits, ties to even, as IEEE-754   *)
(* does.  NaN is the tuple whose first limb is -1.                         *)
(***************************************************************************)
MantBits == 53

LimbBits == 3 * 5

Base == 2 ^ LimbBits

Limbs == 1 .. 6

NLimbs == Cardinality(Limbs)

NaN == <<-1, 0, 0, 0, 0, 0>>

IsNaN(x) == x[1] = -1

FromInt(k) == <<k, 0, 0, 0, 0, 0>>

Zero == FromInt(0)

One == FromInt(1)

\* Exact sum of two grid numbers (carry runs from the last limb to the first).
AddLimbs(x, y) ==
    LET c[i \in 1 .. NLimbs + 1] ==
            IF i = NLimbs + 1 THEN 0 ELSE (x[i] + y[i] + c[i + 1]) \div Base
    IN  [i \in Limbs |-> (x[i] + y[i] + c[i + 1]) % Base]

\* Exact quotient of a grid number by a positive integer n: the quotient
\* truncated to the grid, and whether a remainder is left below the grid.
DivLimbs(x, n) ==
    LET r[i \in 0 .. NLimbs] ==
            IF i = 0 THEN 0 ELSE (r[i - 1] * Base + x[i]) % n
    IN  [q |-> [i \in Limbs |-> (r[i - 1] * Base + x[i]) \div n],
         sticky |-> r[NLimbs] # 0]

\* Number of significant bits of a limb value v >= 1.
RECURSIVE BitLen(_)
BitLen(v) == IF v = 0 THEN 0 ELSE 1 + BitLen(v \div 2)

\* Round the exact value (x plus, when sticky, something below the grid) to
\* MantBits significant bits, round-half-to-even.
RoundLimbs(x, sticky) ==
    IF \A i \in Limbs : x[i] = 0 THEN x
    ELSE
    LET lead == CHOOSE i \in Limbs : x[i] # 0 /\ \A j \in 1 .. i - 1 : x[j] = 0
        \* global bit index (0 = top bit of limb 1) of the leading one
        g    == (lead - 1) * LimbBits + (LimbBits - BitLen(x[lead]))
        cut  == g + MantBits            \* index of the round bit
    IN  IF cut >= NLimbs * LimbBits THEN x
        ELSE
        LET lc   == (cut \div LimbBits) + 1
            w    == 2 ^ (LimbBits - 1 - (cut % LimbBits))
            rbit == (x[lc] \div w) % 2
            low  == (x[lc] % w) # 0 \/ (\E j \in lc + 1 .. NLimbs : x[j] # 0) \/ sticky
            lsb  == IF 2 * w = Base THEN x[lc - 1] % 2 ELSE (x[lc] \div (2 * w)) % 2
            t    == [i \in Limbs |-> IF i < lc THEN x[i]
                                     ELSE IF i = lc THEN x[lc] - (x[lc] % (2 * w))
                                     ELSE 0]
            ulp  == [i \in Limbs |-> IF 2 * w = Base
                                     THEN (IF i = lc - 1 THEN 1 ELSE 0)
                                     ELSE (IF i = lc THEN 2 * w ELSE 0)]
        IN  IF rbit = 1 /\ (low \/ lsb = 1) THEN AddLimbs(t, ulp) ELSE t

\* A grid number as an explicit tuple of its limbs.
Tup(f) == <<f[1], f[2], f[3], f[4], f[5], f[6]>>

\* x + y in float64.  (The operands are bound to their values first, so that
\* each is evaluated once.)
FAdd(x0, y0) ==
    CHOOSE r \in {IF IsNaN(x) \/ IsNaN(y) THEN NaN
                  ELSE Tup(RoundLimbs(AddLimbs(x, y), FALSE)) : x \in {x0}, y \in {y0}} : TRUE

\* x / n in float64, n a positive integer-valued divisor.
FDiv(x0, n) ==
    CHOOSE r \in {IF IsNaN(x) THEN NaN
                  ELSE LET d == DivLimbs(x, n)
                       IN  Tup(RoundLimbs(d.q, d.sticky)) : x \in {x0}} : TRUE

\* Left-to-right float64 sum of a sequence, from 0. (Python sum; numpy's sum
\* of fewer than 8 elements).
RECURSIVE FSum(_)
FSum(s) == IF s = <<>> THEN Zero ELSE FAdd(FSum(SubSeq(s, 1, Len(s) - 1)), s[Len(s)])

(***************************************************************************)
(* Bounds of the model.                                                    *)
(***************************************************************************)
\* Largest side of a square matrix given to skip_diag_strided.
MaxDim == 3

\* Largest number of samples given to get_accuracy and purity_score, and the
\* largest label id and cluster id among them.
MaxSamples == 3

MaxId == 2

\* Largest number of sessions (samples) ranked, the largest class id among
\* their labels, and the largest angular step by which one session's
\* embedding is turned away from its class direction.
MaxSessions == 4

MaxClass == 2

MaxShift == 2

\* Largest number of classes when the sessions come in pairs.
MaxPairs == 3

\* Largest score handed to the constructor of an EvaluationResult.
MaxScore == 2

\* Largest number of sessions handed to evaluation_during_training.
MaxBatch == 3

\* Size of the larger class when two classes differ in size.
MaxGroup == 3

(***************************************************************************)
(* State.                                                                  *)
(*   sq, dropped            a square matrix and skip_diag_strided(sq)      *)
(*   y_true, y_pred         ground-truth labels and predicted clusters     *)
(*   acc, purity            get_accuracy and purity_score of them          *)
(*   labels, features       session labels and embeddings (as directions)  *)
(*   scores_from_subject,   the same-label indicator and the cosine        *)
(*   scores_from_model        similarity, both without their diagonal      *)
(*   rankings, MRR, MAP     get_rankings, mean_reciprocal_rank and         *)
(*                            mean_average_precision of them               *)
(*   raised                 the exception a ranking score raised, or ""    *)
(*   results                the EvaluationResult objects, by name          *)
(*   call                   the last call on them, with what it returned   *)
(*   tasks                  the suites asked of evaluation_during_training *)
(*   returned               the EvaluationResult it returned               *)
(*   correlations           what spearmanr returned for each row           *)
(*   SR                     the semantic relatedness score                 *)
(***************************************************************************)
VARIABLES sq, dropped, y_true, y_pred, acc, purity,
          labels, features, scores_from_subject, scores_from_model,
          rankings, MRR, MAP, raised,
          results, call,
          tasks, returned,
          correlations, SR

diagVars == <<sq, dropped>>

clusterVars == <<y_true, y_pred, acc, purity>>

rankVars == <<labels, features, scores_from_subject, scores_from_model,
              rankings, MRR, MAP, raised>>

resultVars == <<results, call>>

evalVars == <<tasks, returned>>

srVars == <<correlations, SR>>

vars == <<diagVars, clusterVars, rankVars, resultVars, evalVars, srVars>>

\* The value of an output that has not been computed yet.
None == <<>>

(***************************************************************************)
(* skip_diag_strided (loss.py 181-192).  Arrays are row-major buffers; a   *)
(* stride is counted in elements.                                          *)
(***************************************************************************)
\* A.ravel(): the elements of a 2-d array in row-major order.
Ravel(M) ==
    LET cols == Len(M[1])
    IN  [k \in 1 .. Len(M) * cols |-> M[((k - 1) \div cols) + 1][((k - 1) % cols) + 1]]

\* np.lib.stride_tricks.as_strided(buf, shape=(rows, cols), strides=(st0, st1)).
as_strided(buf, rows, cols, st0, st1) ==
    [r \in 1 .. rows |-> [c \in 1 .. cols |-> buf[(r - 1) * st0 + (c - 1) * st1 + 1]]]

\* V.reshape(m, -1).
Reshape(V, m) ==
    LET flat == Ravel(V)
        cols == Len(flat) \div m
    IN  [i \in 1 .. m |-> [j \in 1 .. cols |-> flat[(i - 1) * cols + j]]]

\* The slip of striding by one row only: the stride (s0, s1) in place of (s0+s1, s1).
skip_diag_strided_rowstride(M) ==
    LET m  == Len(M)
        s0 == m
        s1 == 1
    IN  Reshape(as_strided(Tail(Ravel(M)), m - 1, m, s0, s1), m)

skip_diag_strided(M) ==
    LET m  == Len(M)
        s0 == m          \* A.strides of a C-contiguous m x m array
        s1 == 1
    IN  Reshape(as_strided(Tail(Ravel(M)), m - 1, m, s0 + s1, s1), m)

\* The 0/1 square matrices of side 2..MaxDim (an indicator matrix is one).
SquareMatrices ==
    UNION {[1 .. n -> [1 .. n -> {0, 1}]] : n \in 2 .. MaxDim}

\* The variables of the clustering scores, idle.
ClusterIdle == y_true = None /\ y_pred = None /\ acc = None /\ purity = None

\* The variables of the ranking scores, idle.
RankIdle ==
    /\ labels = None /\ features = None
    /\ scores_from_subject = None /\ scores_from_model = None
    /\ rankings = None /\ MRR = None /\ MAP = None /\ raised = ""

\* The variables of the EvaluationResult objects, idle.
ResultIdle == results = None /\ call = None

\* The variables of a call of evaluation_during_training, idle.
EvalIdle == tasks = None /\ returned = None

\* The variables of a call of semantic_relatedness_precise, idle.
SRIdle == correlations = None /\ SR = None

InitDiag ==
    /\ sq \in SquareMatrices /\ dropped = None
    /\ ClusterIdle /\ RankIdle /\ ResultIdle /\ EvalIdle /\ SRIdle

SkipDiag ==
    /\ dropped = None
    /\ dropped' = skip_diag_strided(sq)
    /\ UNCHANGED <<sq, clusterVars, rankVars, resultVars, evalVars, srVars>>

NextDiag == SkipDiag

SpecDiag == InitDiag /\ [][NextDiag]_vars

\* s without its i-th element.
RemoveAt(s, i) == SubSeq(s, 1, i - 1) \o SubSeq(s, i + 1, Len(s))

\* C1: skip_diag_strided of an N x N matrix, N >= 2, is an N x (N-1) matrix
\* whose row i is row i of the input with the diagonal entry removed and the
\* other entries in their original order.
C1_DropDiagonal ==
    dropped # None =>
        /\ Len(dropped) = Len(sq)
        /\ \A i \in 1 .. Len(sq) :
              /\ Len(dropped[i]) = Len(sq) - 1
              /\ dropped[i] = RemoveAt(sq[i], i)

\* A 3 x 3 input whose diagonal entries differ from their row neighbours, so
\* that removing any other entry of a row would show.
C1_Witness ==
    /\ dropped # None
    /\ Len(sq) = 3
    /\ \A i \in 1 .. 3 : \A j \in 1 .. 3 : sq[i][j] = (IF i = j THEN 1 ELSE 0)

(***************************************************************************)
(* get_accuracy (loss.py 96-111) and purity_score (loss.py 113-148).       *)
(***************************************************************************)
Max(S) == CHOOSE x \in S : \A y \in S : y <= x

Min(S) == CHOOSE x \in S : \A y \in S : x <= y

Range(s) == {s[i] : i \in DOMAIN s}

\* Sum of f over the finite set S.
RECURSIVE SumOver(_, _)
SumOver(S, f) ==
    IF S = {} THEN 0
    ELSE LET x == CHOOSE x \in S : TRUE IN f[x] + SumOver(S \ {x}, f)

\* np.unique: the distinct values in increasing order.
RECURSIVE SortedSeq(_)
SortedSeq(S) == IF S = {} THEN <<>> ELSE <<Min(S)>> \o SortedSeq(S \ {Min(S)})

unique(v) == SortedSeq(Range(v))

\* The slip of w[y_pred[i], y_true[i]] = 1 for += 1: a cell only records
\* that some sample fell in it.
Confusion_flag(yt, yp) ==
    LET D == Max({Max(Range(yp)), Max(Range(yt))}) + 1
    IN  [i \in 0 .. D - 1 |-> [j \in 0 .. D - 1 |->
            IF \E n \in DOMAIN yp : yp[n] = i /\ yt[n] = j THEN 1 ELSE 0]]

\* The D x D confusion matrix w of get_accuracy, rows predicted, columns true.
Confusion(yt, yp) ==
    LET D == Max({Max(Range(yp)), Max(Range(yt))}) + 1
    IN  [i \in 0 .. D - 1 |-> [j \in 0 .. D - 1 |->
            Cardinality({n \in DOMAIN yp : yp[n] = i /\ yt[n] = j})]]

\* Total cost of the assignment row i -> column p[i].
AssignmentCost(cost, p) == SumOver(DOMAIN cost, [i \in DOMAIN cost |-> cost[i][p[i]]])

\* scipy.optimize.linear_sum_assignment on a square cost matrix: a one-to-one
\* assignment of rows to columns of least total cost.
linear_sum_assignment(cost) ==
    CHOOSE p \in UNION {{q \in Permutations(DOMAIN cost) : AssignmentCost(cost, q) = least} :
                         least \in {Min({AssignmentCost(cost, q) : q \in Permutations(DOMAIN cost)})}} :
        TRUE

\* The slip of handing the solver w itself, which minimises the matches.
CostMatrix_counts(w) == w

\* The cost matrix handed to the solver: w.max() - w.
CostMatrix(w) ==
    LET wmax == Max(UNION {Range(w[i]) : i \in DOMAIN w})
    IN  [i \in DOMAIN w |-> [j \in DOMAIN w |-> wmax - w[i][j]]]

get_accuracy(yt, yp) ==
    LET w   == Confusion(yt, yp)
        ind == linear_sum_assignment(CostMatrix(w))
    IN  FDiv(FromInt(SumOver(DOMAIN w, [i \in DOMAIN w |-> w[i][ind[i]]])), Len(yp))

\* The slip of numbering the ordered labels from 1: label labels[k] becomes k,
\* which may be a label still to be renamed.
RECURSIVE Relabel_fromOne(_, _, _)
Relabel_fromOne(y, lbls, k) ==
    IF k > Len(lbls) THEN y
    ELSE Relabel_fromOne([n \in DOMAIN y |-> IF y[n] = lbls[k] THEN k ELSE y[n]], lbls, k + 1)

\* The loop of lines 133-134: label labels[k] becomes k-1, in place, k ascending.
RECURSIVE Relabel(_, _, _)
Relabel(y, lbls, k) ==
    IF k > Len(lbls) THEN y
    ELSE Relabel([n \in DOMAIN y |-> IF y[n] = lbls[k] THEN k - 1 ELSE y[n]], lbls, k + 1)

\* np.histogram(values, bins): bin b holds the values in [bins[b], bins[b+1]),
\* the last bin also its right edge.
histogram(values, bins) ==
    [b \in 1 .. Len(bins) - 1 |->
        Cardinality({n \in DOMAIN values :
            /\ bins[b] <= values[n]
            /\ \/ values[n] < bins[b + 1]
               \/ b = Len(bins) - 1 /\ values[n] = bins[b + 1]})]

\* A variant that votes for the least present label: the first index of the
\* smallest entry.
argmin(h) == Min({b \in DOMAIN h : \A c \in DOMAIN h : h[b] <= h[c]}) - 1

\* np.argmax: the first index (from 0) of the largest entry.
argmax(h) == Min({b \in DOMAIN h : \A c \in DOMAIN h : h[c] <= h[b]}) - 1

\* The members of a cluster, as the sequence y[y_pred == cluster].
Select(y, yp, cluster) ==
    LET RECURSIVE Pick(_)
        Pick(n) == IF n > Len(y) THEN <<>>
                   ELSE (IF yp[n] = cluster THEN <<y[n]>> ELSE <<>>) \o Pick(n + 1)
    IN  Pick(1)

purity_score(yt, yp) ==
    LET labels0 == unique(yt)
        y       == Relabel(yt, labels0, 1)
        lbls    == unique(y)
        bins    == lbls \o <<Max(Range(lbls)) + 1>>
        voted   == [n \in DOMAIN y |-> argmax(histogram(Select(y, yp, yp[n]), bins))]
    IN  \* sklearn accuracy_score: the fraction of positions that agree
        FDiv(FromInt(Cardinality({n \in DOMAIN y : y[n] = voted[n]})), Len(y))

\* Label and cluster vectors of 1..MaxSamples samples with ids in 0..MaxId.
Vectors(n) == [1 .. n -> 0 .. MaxId]

DiagIdle == sq = None /\ dropped = None

InitCluster ==
    /\ \E n \in 1 .. MaxSamples : y_true \in Vectors(n) /\ y_pred \in Vectors(n)
    /\ acc = None /\ purity = None
    /\ DiagIdle /\ RankIdle /\ ResultIdle /\ EvalIdle /\ SRIdle

GetAccuracy ==
    /\ acc = None
    /\ acc' = get_accuracy(y_true, y_pred)
    /\ UNCHANGED <<y_true, y_pred, purity, diagVars, rankVars, resultVars, evalVars, srVars>>

PurityScore ==
    /\ purity = None
    /\ purity' = purity_score(y_true, y_pred)
    /\ UNCHANGED <<y_true, y_pred, acc, diagVars, rankVars, resultVars, evalVars, srVars>>

NextCluster == GetAccuracy \/ PurityScore

SpecCluster == InitCluster /\ [][NextCluster]_vars

\* y_pred induces exactly the partition of the samples that y_true does.
SamePartition ==
    \A m, n \in DOMAIN y_true : (y_true[m] = y_true[n]) <=> (y_pred[m] = y_pred[n])

\* C2: when the predicted clusters are a one-to-one renaming of the labels,
\* get_accuracy and purity_score both return exactly 1.0.
C2_PerfectPartition ==
    (y_true # None /\ SamePartition) =>
        /\ acc # None => acc = One
        /\ purity # None => purity = One

\* Both scores computed for a renaming that is not the identity, over at
\* least two labels, one of them held by two samples.
C2_Witness ==
    /\ acc # None /\ purity # None
    /\ SamePartition
    /\ y_pred # y_true
    /\ Cardinality(Range(y_true)) >= 2
    /\ Cardinality(Range(y_true)) < Len(y_true)

\* The number of samples whose cluster id, renamed by m, is their label.
Matched(m) == Cardinality({n \in DOMAIN y_pred : m[y_pred[n]] = y_true[n]})

IdRange == 0 .. Max({Max(Range(y_pred)), Max(Range(y_true))})

\* C3: get_accuracy is the largest matched count over all one-to-one maps of
\* 0..D-1 to itself, D = max(max(y_pred), max(y_true)) + 1, divided by N.
C3_OptimalAssignment ==
    acc # None =>
        acc = FDiv(FromInt(Max({Matched(m) : m \in Permutations(IdRange)})), Len(y_pred))

\* A case where giving every cluster its own most frequent label is not
\* one-to-one, so that the assignment has to trade one cluster against another:
\* accuracy lies strictly between the identity renaming's score and purity.
C3_Witness ==
    /\ acc # None /\ purity # None
    /\ acc # purity
    /\ acc # FDiv(FromInt(Matched([i \in IdRange |-> i])), Len(y_pred))

\* The size of the largest group of members of cluster c sharing one label.
Majority(c) ==
    Max({Cardinality({n \in DOMAIN y_true : y_pred[n] = c /\ y_true[n] = l}) :
            l \in Range(y_true)})

\* C4: purity_score is the sum over the predicted clusters of the largest
\* number of members sharing a ground-truth label, divided by N, also for
\* label ids with gaps; the in-place relabelling to 0..K-1 merges no two labels.
C4_Purity ==
    y_true # None =>
        /\ LET y == Relabel(y_true, unique(y_true), 1)
           IN  /\ Range(y) = 0 .. Cardinality(Range(y_true)) - 1
               /\ \A m, n \in DOMAIN y : (y[m] = y[n]) <=> (y_true[m] = y_true[n])
        /\ purity # None =>
              purity = FDiv(FromInt(SumOver(Range(y_pred),
                                            [c \in Range(y_pred) |-> Majority(c)])),
                            Len(y_true))

\* Purity computed for labels {0, 2} (id 1 missing) with an impure cluster.
C4_Witness ==
    /\ purity # None
    /\ Range(y_true) = {0, 2}
    /\ purity # One
    /\ purity # Zero

(***************************************************************************)
(* The ranking scores (loss.py 150-179, 226-271).  An embedding is a unit  *)
(* vector of the plane, held as its direction in steps of 60 degrees; the  *)
(* cosine of two of them is held doubled, which keeps it an integer and    *)
(* keeps the order the ranking code sorts by.                              *)
(***************************************************************************)
Directions == 0 .. 5

\* 2 cos(60 d), d = 0..5.
TwoCos == <<2, 1, -1, -2, -1, 1>>

feature_cosine_matrix(f) ==
    [i \in DOMAIN f |-> [j \in DOMAIN f |->
        TwoCos[((f[i] - f[j]) % Cardinality(Directions)) + 1]]]

\* (M_y == M_y.T) and the cosine matrix, lines 167-179.
precalculate_scores_from_subject_and_model(yt, f) ==
    [subject |-> [i \in DOMAIN yt |-> [j \in DOMAIN yt |-> IF yt[i] = yt[j] THEN 1 ELSE 0]],
     model   |-> feature_cosine_matrix(f)]

\* How a sort orders entries that compare equal: numpy's default sort leaves
\* it open; a call takes either extreme.
TieOrders == {"stable", "reverse"}

\* np.argsort of one row: the indices (from 0) in increasing order of value.
RECURSIVE ArgSortFrom(_, _, _)
ArgSortFrom(v, R, tie) ==
    IF R = {} THEN <<>>
    ELSE LET lo    == Min({v[i + 1] : i \in R})
             cands == {i \in R : v[i + 1] = lo}
             nxt   == IF tie = "stable" THEN Min(cands) ELSE Max(cands)
         IN  <<nxt>> \o ArgSortFrom(v, R \ {nxt}, tie)

ArgSort(v, tie) == ArgSortFrom(v, 0 .. Len(v) - 1, tie)

Reverse(v) == [k \in DOMAIN v |-> v[Len(v) + 1 - k]]

\* The slip of ranking by ascending similarity (argsort of the scores, not
\* of their negation): rank 1 goes to the least similar.
RowRanking_ascending(row, tie) ==
    LET rank1 == ArgSort(row, tie)
        rank2 == ArgSort(rank1, "stable")
    IN  [j \in DOMAIN row |-> rank2[j] + 1]

\* One row of get_rankings, lines 233-235.
RowRanking(row, tie) ==
    LET rank1 == ArgSort([j \in DOMAIN row |-> 0 - row[j]], tie)
        rank2 == ArgSort(rank1, "stable")
    IN  [j \in DOMAIN row |-> rank2[j] + 1]

get_rankings(model, tie) == [i \in DOMAIN model |-> RowRanking(model[i], tie)]

\* The slip of leaving out [:, ::-1]: the subject row in increasing order of
\* similarity.
SortedSubject_ascending(srow, mrow, tie) ==
    LET sorting_index == ArgSort(mrow, tie)
    IN  [k \in DOMAIN srow |-> srow[sorting_index[k] + 1]]

\* One row of lines 268-269: the subject row in decreasing order of similarity.
SortedSubject(srow, mrow, tie) ==
    LET sorting_index == ArgSort(mrow, tie)
    IN  Reverse([k \in DOMAIN srow |-> srow[sorting_index[k] + 1]])

\* r.tolist().index(1) raises ValueError when the row holds no 1.
MRRRaises(subject) == \E i \in DOMAIN subject : 1 \notin Range(subject[i])

\* 1. / (rs + 1) of one row, lines 270-271.
RowReciprocal(srow, mrow, tie) ==
    LET sorted == SortedSubject(srow, mrow, tie)
        rs     == Min({k \in DOMAIN sorted : sorted[k] = 1}) - 1
    IN  FDiv(One, rs + 1)

\* numpy's sum of a float64 vector of fewer than 16 elements: left to right
\* below 8 elements; from 8 on, the first eight added pairwise as a tree and
\* the others added to that one by one.
add_reduce(v) ==
    IF Len(v) < 8 THEN FSum(v)
    ELSE LET tree == FAdd(FAdd(FAdd(v[1], v[2]), FAdd(v[3], v[4])),
                          FAdd(FAdd(v[5], v[6]), FAdd(v[7], v[8])))
         IN  FSum(<<tree>> \o SubSeq(v, 9, Len(v)))

\* np.mean of a float64 vector; nan for an empty one.
mean(v) == IF v = <<>> THEN NaN ELSE FDiv(add_reduce(v), Len(v))

mean_reciprocal_rank(subject, model, tie) ==
    mean([i \in DOMAIN subject |-> RowReciprocal(subject[i], model[i], tie)])

\* np.sort of a vector.
Sort(v) == LET ix == ArgSort(v, "stable") IN [k \in DOMAIN v |-> v[ix[k] + 1]]

\* np.mean(cumsum / rankings) of one row, lines 246-254.
RowAveragePrecision(srow, rrow) ==
    LET picked   == Select(rrow, srow, 1)
        ranks    == Sort(picked)
        cumsum   == [k \in DOMAIN picked |-> k]
    IN  mean([k \in DOMAIN picked |-> FDiv(FromInt(cumsum[k]), ranks[k])])

\* A variant that weighs every positive alike, not every row: the sum of all
\* cumsum / rankings over the number of all positives.
mean_average_precision_micro(subject, all_rankings) ==
    LET terms(i) == LET picked == Select(all_rankings[i], subject[i], 1)
                        ranks  == Sort(picked)
                    IN  [k \in DOMAIN picked |-> FDiv(FromInt(k), ranks[k])]
        RECURSIVE All(_)
        All(i) == IF i > Len(subject) THEN <<>> ELSE terms(i) \o All(i + 1)
    IN  mean(All(1))

mean_average_precision(subject, all_rankings) ==
    LET n_samples == Len(subject)
    IN  FSum([i \in DOMAIN subject |->
                FDiv(RowAveragePrecision(subject[i], all_rankings[i]), n_samples)])

\* Class ids of n sessions, named in order of first appearance.
ClassVectors(n) ==
    {l \in [1 .. n -> 0 .. MaxClass] :
        /\ l[1] = 0
        /\ \A i \in 2 .. n : l[i] <= Max({l[j] : j \in 1 .. i - 1}) + 1}

\* The direction of a class: classes sit 120 degrees apart.
ClassDir(c) == (2 * c) % Cardinality(Directions)

\* Embeddings of the sessions: each along its class direction, but for at
\* most two sessions, each turned away by up to MaxShift steps.
Embeddings(l) ==
    {[i \in DOMAIN l |-> IF i = k1 THEN (ClassDir(l[i]) + d1) % Cardinality(Directions)
                         ELSE IF i = k2 THEN (ClassDir(l[i]) + d2) % Cardinality(Directions)
                         ELSE ClassDir(l[i])] :
        k1 \in DOMAIN l, k2 \in DOMAIN l, d1 \in 0 .. MaxShift, d2 \in 0 .. MaxShift}

InitRank ==
    /\ \E n \in 2 .. MaxSessions : labels \in ClassVectors(n)
    /\ features \in Embeddings(labels)
    /\ scores_from_subject = None /\ scores_from_model = None
    /\ rankings = None /\ MRR = None /\ MAP = None /\ raised = ""
    /\ DiagIdle /\ ClusterIdle /\ ResultIdle /\ EvalIdle /\ SRIdle

\* Lines 469-471: both score matrices, each without its diagonal.
Precalculate ==
    /\ scores_from_subject = None
    /\ LET scores == precalculate_scores_from_subject_and_model(labels, features)
       IN  /\ scores_from_subject' = skip_diag_strided(scores.subject)
           /\ scores_from_model' = skip_diag_strided(scores.model)
    /\ UNCHANGED <<labels, features, rankings, MRR, MAP, raised, diagVars, clusterVars, resultVars, evalVars, srVars>>

GetRankings ==
    /\ scores_from_model # None /\ rankings = None
    /\ \E tie \in TieOrders : rankings' = get_rankings(scores_from_model, tie)
    /\ UNCHANGED <<labels, features, scores_from_subject, scores_from_model,
                   MRR, MAP, raised, diagVars, clusterVars, resultVars, evalVars, srVars>>

MeanReciprocalRank ==
    /\ scores_from_model # None /\ MRR = None /\ raised = ""
    /\ IF MRRRaises(scores_from_subject)
       THEN raised' = "ValueError" /\ MRR' = MRR
       ELSE /\ \E tie \in TieOrders :
                  MRR' = mean_reciprocal_rank(scores_from_subject, scores_from_model, tie)
            /\ raised' = raised
    /\ UNCHANGED <<labels, features, scores_from_subject, scores_from_model,
                   rankings, MAP, diagVars, clusterVars, resultVars, evalVars, srVars>>

MeanAveragePrecision ==
    /\ rankings # None /\ MAP = None
    /\ MAP' = mean_average_precision(scores_from_subject, rankings)
    /\ UNCHANGED <<labels, features, scores_from_subject, scores_from_model,
                   rankings, MRR, raised, diagVars, clusterVars, resultVars, evalVars, srVars>>

\* Sessions in pairs: every class id is the label of exactly two sessions.
PairVectors(n) ==
    {l \in [1 .. n -> 0 .. MaxPairs - 1] :
        /\ l[1] = 0
        /\ \A i \in 2 .. n : l[i] <= Max({l[j] : j \in 1 .. i - 1}) + 1
        /\ \A i \in 1 .. n : Cardinality({j \in 1 .. n : l[j] = l[i]}) = 2}

InitPairs ==
    /\ \E p \in 1 .. MaxPairs : labels \in PairVectors(2 * p)
    /\ features \in Embeddings(labels)
    /\ scores_from_subject = None /\ scores_from_model = None
    /\ rankings = None /\ MAP = None /\ MRR = None /\ raised = ""
    /\ DiagIdle /\ ClusterIdle /\ ResultIdle /\ EvalIdle /\ SRIdle

\* Sessions of two classes of different sizes: MaxGroup of one, two of the
\* other.
UnevenVectors ==
    {l \in [1 .. MaxGroup + 2 -> 0 .. 1] :
        /\ l[1] = 0
        /\ Cardinality({i \in DOMAIN l : l[i] = 0}) \in {2, MaxGroup}
        /\ Cardinality({i \in DOMAIN l : l[i] = 1}) \in {2, MaxGroup}}

\* Embeddings of the sessions: each along its class direction, but for one
\* session, turned away by up to MaxShift steps.
OneTurned(l) ==
    {[i \in DOMAIN l |-> IF i = k THEN (ClassDir(l[i]) + d) % Cardinality(Directions)
                         ELSE ClassDir(l[i])] :
        k \in DOMAIN l, d \in 0 .. MaxShift}

InitUneven ==
    /\ labels \in UnevenVectors
    /\ features \in OneTurned(labels)
    /\ scores_from_subject = None /\ scores_from_model = None
    /\ rankings = None /\ MAP = None /\ MRR = None /\ raised = ""
    /\ DiagIdle /\ ClusterIdle /\ ResultIdle /\ EvalIdle /\ SRIdle

NextRank == Precalculate \/ GetRankings \/ MeanReciprocalRank \/ MeanAveragePrecision

SpecRank == InitRank /\ [][NextRank]_vars

SpecPairs == InitPairs /\ [][NextRank]_vars

SpecUneven == InitUneven /\ [][NextRank]_vars

\* Every row holds exactly one positive entry.
OnePositivePerRow ==
    \A i \in DOMAIN scores_from_subject :
        Cardinality({j \in DOMAIN scores_from_subject[i] : scores_from_subject[i][j] = 1}) = 1

\* ... and that entry has strictly the largest similarity of its row.
PositiveStrictlyFirst ==
    \A i \in DOMAIN scores_from_subject : \A j, k \in DOMAIN scores_from_subject[i] :
        (scores_from_subject[i][j] = 1 /\ k # j) =>
            scores_from_model[i][j] > scores_from_model[i][k]

\* C5: when every row has exactly one positive entry and it is strictly the
\* most similar of its row, mean_reciprocal_rank returns exactly 1.0.
C5_MRROne ==
    (scores_from_subject # None /\ OnePositivePerRow /\ PositiveStrictlyFirst) =>
        /\ raised = ""
        /\ MRR # None => MRR = One

\* Four sessions in two pairs, each partner the most similar, the two others
\* tied: the sort may order them either way.
C5_Witness ==
    /\ MRR # None
    /\ OnePositivePerRow /\ PositiveStrictlyFirst
    /\ Len(scores_from_subject) = 4
    /\ \E i \in 1 .. 4 : \E j, k \in 1 .. 3 :
          j # k /\ scores_from_model[i][j] = scores_from_model[i][k]

\* C6: when every row has exactly one positive entry and get_rankings gives
\* it rank 1, mean_average_precision returns exactly 1.0.
C6_MAPOne ==
    (MAP # None /\ OnePositivePerRow
        /\ \A i \in DOMAIN rankings : \A j \in DOMAIN rankings[i] :
               scores_from_subject[i][j] = 1 => rankings[i][j] = 1)
    => MAP = One

(***************************************************************************)
(* EvaluationResult: a dataclass over an OrderedDict.  An object has its   *)
(* attributes (the instance __dict__) and its mapping entries (the         *)
(* OrderedDict items written once by __post_init__).                       *)
(***************************************************************************)

\* The dataclass fields in declaration order, which is the order in which
\* the generated __init__ inserts them into __dict__.
Fields ==
    <<"RI", "NMI", "acc", "purity", "SR", "MRR", "MAP", "all_mean",
      "alignment", "adjusted_alignment", "uniformity">>

positive_metrics == <<"RI", "NMI", "acc", "purity", "SR", "MRR", "MAP">>

negative_metrics == <<>>

not_metrics == <<"all_mean", "alignment", "adjusted_alignment", "uniformity">>

\* x < y on floats; a comparison with NaN is False.
FLess(x, y) ==
    /\ ~IsNaN(x) /\ ~IsNaN(y)
    /\ \E l \in Limbs : x[l] < y[l] /\ \A h \in 1 .. l - 1 : x[h] = y[h]

\* Exact difference x - y of two grid numbers, x >= y (borrow runs from the
\* last limb to the first).
SubLimbs(x, y) ==
    LET b[i \in 1 .. NLimbs + 1] ==
            IF i = NLimbs + 1 THEN 0
            ELSE IF x[i] - y[i] - b[i + 1] < 0 THEN 1 ELSE 0
    IN  [i \in Limbs |-> (x[i] - y[i] - b[i + 1]) % Base]

\* The float below zero of magnitude m.
Neg(m) == <<"-", m>>

IsNeg(x) == Len(x) = 2

\* x - y in float64, x and y not below zero: the rounded difference of the
\* larger and the smaller, below zero when x < y.
FSub(x0, y0) ==
    CHOOSE r \in {IF IsNaN(x) \/ IsNaN(y) THEN NaN
                  ELSE IF FLess(x, y) THEN Neg(Tup(RoundLimbs(SubLimbs(y, x), FALSE)))
                  ELSE Tup(RoundLimbs(SubLimbs(x, y), FALSE)) : x \in {x0}, y \in {y0}} : TRUE

\* all_values of mean(): the values of the keys of __dict__ that are positive
\* metrics, in the order of __dict__ (negative_metrics is empty, so no value
\* is ever negated).
RECURSIVE all_values(_, _)
all_values(attrs, keys) ==
    IF keys = <<>> THEN <<>>
    ELSE (IF Head(keys) \in Range(positive_metrics) THEN <<attrs[Head(keys)]>> ELSE <<>>)
             \o all_values(attrs, Tail(keys))

\* A variant of mean() that averages every field but all_mean itself.
EvaluationResult_mean_every(attrs) ==
    LET values == [k \in 1 .. Len(Fields) - 1 |->
                       attrs[SelectSeq(Fields, LAMBDA f : f # "all_mean")[k]]]
    IN  FDiv(FSum(values), Len(values))

\* mean(): sum(all_values) / len(all_values); the value it stores in
\* self.all_mean and returns.
EvaluationResult_mean(attrs) ==
    LET values == all_values(attrs, Fields)
    IN  FDiv(FSum(values), Len(values))

\* The constructor: the generated __init__ stores the keyword arguments,
\* then __post_init__ resets all_mean, calls mean() and copies every field
\* into the mapping.
EvaluationResult(kwargs) ==
    LET reset  == [kwargs EXCEPT !["all_mean"] = Zero]
        attrs  == [reset EXCEPT !["all_mean"] = EvaluationResult_mean(reset)]
    IN  [attrs |-> attrs, entries |-> [f \in Range(Fields) |-> attrs[f]]]

\* A variant of __lt__ that orders by all_mean.
EvaluationResult_lt_all_mean(self, other) ==
    FLess(self.attrs["all_mean"], other.attrs["all_mean"])

\* __lt__
EvaluationResult_lt(self, other) ==
    FLess(self.attrs["purity"], other.attrs["purity"])

\* A variant of update() that copies alignment as well.
EvaluationResult_update_alignment(self, new_result) ==
    [self EXCEPT !.attrs =
        [f \in Range(Fields) |->
            IF f \in Range(positive_metrics) \cup {"alignment"}
            THEN new_result.attrs[f] ELSE self.attrs[f]]]

\* update(): seven attribute assignments; the mapping entries are not touched.
EvaluationResult_update(self, new_result) ==
    [self EXCEPT !.attrs =
        [@ EXCEPT !["RI"] = new_result.attrs["RI"],
                  !["NMI"] = new_result.attrs["NMI"],
                  !["acc"] = new_result.attrs["acc"],
                  !["purity"] = new_result.attrs["purity"],
                  !["SR"] = new_result.attrs["SR"],
                  !["MRR"] = new_result.attrs["MRR"],
                  !["MAP"] = new_result.attrs["MAP"]]]

\* The names the objects are bound to.
Names == {"r", "other"}

Scores == {FromInt(v) : v \in 0 .. MaxScore}

\* Keyword arguments: at most one of the seven metrics and at most one of
\* the four other fields differ from the default 0.
Kwargs ==
    {[f \in Range(Fields) |-> IF f = m THEN v ELSE IF f = g THEN w ELSE Zero] :
        m \in Range(positive_metrics), v \in Scores,
        g \in Range(not_metrics), w \in {Zero, FromInt(MaxScore)}}

InitResult ==
    /\ results = <<>>
    /\ call = [op |-> ""]
    /\ DiagIdle /\ ClusterIdle /\ RankIdle /\ EvalIdle /\ SRIdle

\* name = EvaluationResult(**kwargs)
Construct(name, kwargs) ==
    /\ name \notin DOMAIN results
    /\ results' = (name :> EvaluationResult(kwargs)) @@ results
    /\ call' = [op |-> "__init__", self |-> name, args |-> kwargs]
    /\ UNCHANGED <<diagVars, clusterVars, rankVars, evalVars, srVars>>

\* self.update(other)
Update(self, other) ==
    /\ self \in DOMAIN results /\ other \in DOMAIN results
    /\ results' = [results EXCEPT ![self] = EvaluationResult_update(@, results[other])]
    /\ call' = [op |-> "update", self |-> self, other |-> other]
    /\ UNCHANGED <<diagVars, clusterVars, rankVars, evalVars, srVars>>

\* self < other
Lt(self, other) ==
    /\ self \in DOMAIN results /\ other \in DOMAIN results
    /\ call' = [op |-> "__lt__", self |-> self, other |-> other,
                ret |-> EvaluationResult_lt(results[self], results[other])]
    /\ UNCHANGED <<results, diagVars, clusterVars, rankVars, evalVars, srVars>>

\* self.mean()
Mean(self) ==
    /\ self \in DOMAIN results
    /\ LET m == EvaluationResult_mean(results[self].attrs)
       IN  /\ results' = [results EXCEPT ![self].attrs["all_mean"] = m]
           /\ call' = [op |-> "mean", self |-> self, ret |-> m]
    /\ UNCHANGED <<diagVars, clusterVars, rankVars, evalVars, srVars>>

\* One object, r, is updated from the other and re-averaged; either may be
\* compared with the other.
NextResult ==
    \/ \E name \in Names, kwargs \in Kwargs : Construct(name, kwargs)
    \/ Update("r", "other")
    \/ \E self, other \in Names : self # other /\ Lt(self, other)
    \/ Mean("r")

SpecResult == InitResult /\ [][NextResult]_vars

\* C7: immediately after construction all_mean is
\* (RI + NMI + acc + purity + SR + MRR + MAP) / 7 of the arguments, whatever
\* all_mean, alignment, adjusted_alignment and uniformity were passed, and the
\* mapping entry 'all_mean' holds the same value.
C7_AllMeanDerived ==
    call.op = "__init__" =>
        LET kw      == call.args
            derived == FDiv(FAdd(FAdd(FAdd(FAdd(FAdd(FAdd(kw["RI"], kw["NMI"]), kw["acc"]),
                                 kw["purity"]), kw["SR"]), kw["MRR"]), kw["MAP"]), 7)
        IN  /\ results[call.self].attrs["all_mean"] = derived
            /\ results[call.self].entries["all_mean"] = derived

\* A construction that passed a non-zero all_mean and got another non-zero one.
C7_Witness ==
    /\ call.op = "__init__"
    /\ call.args["all_mean"] # Zero
    /\ results[call.self].attrs["all_mean"] \notin {Zero, call.args["all_mean"]}

\* C8: a < b exactly when a.purity < b.purity, whatever the other fields;
\* results of equal purity are not ordered.
C8_OrderByPurity ==
    call.op = "__lt__" =>
        LET a == results[call.self].attrs
            b == results[call.other].attrs
        IN  /\ call.ret <=> FLess(a["purity"], b["purity"])
            /\ a["purity"] = b["purity"] => ~call.ret

\* a < b although a has the larger all_mean.
C8_Witness ==
    /\ call.op = "__lt__" /\ call.ret
    /\ FLess(results[call.other].attrs["all_mean"], results[call.self].attrs["all_mean"])

\* C9: r.update(other) sets the seven metrics of r to other's and changes
\* nothing else: not alignment, adjusted_alignment, uniformity or all_mean of
\* r, not the mapping entries of r, and not other.
C9_UpdateFrame ==
    [][\A r, other \in Names :
          Update(r, other) =>
              /\ \A f \in Range(positive_metrics) :
                     results'[r].attrs[f] = results[other].attrs[f]
              /\ \A f \in Range(not_metrics) :
                     results'[r].attrs[f] = results[r].attrs[f]
              /\ results'[r].entries = results[r].entries
              /\ \A n \in DOMAIN results \ {r} : results'[n] = results[n]
              /\ DOMAIN results' = DOMAIN results]_vars

\* An update that changed a metric of r, between objects that differ in
\* alignment and in all_mean.
C9_Witness ==
    /\ call.op = "update" /\ call.self # call.other
    /\ LET r     == results[call.self]
           other == results[call.other]
       IN  /\ r.attrs["MAP"] # r.entries["MAP"]
           /\ r.attrs["alignment"] # other.attrs["alignment"]
           /\ r.attrs["all_mean"] # other.attrs["all_mean"]
           /\ r.attrs["all_mean"] = r.entries["all_mean"]

(***************************************************************************)
(* Loss.evaluation_during_training, called with the defaults n_average=1,  *)
(* gpu_features=None, tsne_visualization_output=None and logger=None.      *)
(* What sklearn, scipy and torch compute is not in this repository: a call *)
(* of theirs returns one of the values its contract allows, of which the   *)
(* model keeps 0.0 and 1.0.                                                *)
(***************************************************************************)

\* The names evaluation_during_training looks for in tasks.
KnownTasks ==
    {"clustering", "semantic_relatedness", "session_retrieval", "visualization",
     "align_uniform"}

\* The names a caller may pass: the known ones and one the function never
\* looks for.
TaskNames == KnownTasks \cup {"classification"}

\* The number of feature rows differs from the number of labels.
Mismatch(l, feats) == Len(feats) # Len(l)

\* The default of the parameter n_average.
n_average == 1

LibraryScores == {Zero, One}

\* clf.fit(features); clf.predict(features): a cluster index below n_clusters
\* for every sample.
KMeans(n_clusters, feats) == [DOMAIN feats -> 0 .. n_clusters - 1]

\* Two labellings that split the samples the same way.
SameClasses(l, p) == \A m, n \in DOMAIN l : (l[m] = l[n]) <=> (p[m] = p[n])

\* sklearn's adjusted_rand_score: 1.0 for the same split, else below it.
adjusted_rand_score(l, p) == IF SameClasses(l, p) THEN {One} ELSE LibraryScores \ {One}

\* sklearn's normalized_mutual_info_score
normalized_mutual_info_score(l, p) == LibraryScores

\* The scores after one more pass of the loop of lines 436-463, from the
\* scores before it.
ClusteringPass(before, l, feats) ==
    {[RI     |-> FAdd(before.RI, FDiv(ri, n_average)),
      NMI    |-> FAdd(before.NMI, FDiv(nmi, n_average)),
      acc    |-> FAdd(before.acc, FDiv(get_accuracy(l, p), n_average)),
      purity |-> FAdd(before.purity, FDiv(purity_score(l, p), n_average))] :
        <<p, ri, nmi>> \in
            {t \in KMeans(Cardinality(Range(l)), feats) \X LibraryScores \X LibraryScores :
                /\ t[2] \in adjusted_rand_score(l, t[1])
                /\ t[3] \in normalized_mutual_info_score(l, t[1])}}

RECURSIVE ClusteringLoop(_, _, _, _)
ClusteringLoop(scores, l, feats, passes) ==
    IF passes = 0 THEN scores
    ELSE ClusteringLoop(UNION {ClusteringPass(b, l, feats) : b \in scores}, l, feats, passes - 1)

\* Lines 426 and 434-463: every (RI, NMI, acc, purity) the function may hold
\* after the clustering suite, or the exception the suite raises: sklearn
\* refuses labels and predictions of different lengths (and fewer samples than
\* clusters) with a ValueError.
Clustering(t, l, feats) ==
    LET initial == [RI |-> Zero, NMI |-> Zero, acc |-> Zero, purity |-> Zero]
    IN  IF "clustering" \in t
        THEN IF Mismatch(l, feats)
             THEN {[scores |-> initial, raised |-> "ValueError"]}
             ELSE {[scores |-> c, raised |-> ""] :
                      c \in ClusteringLoop({initial}, l, feats, n_average)}
        ELSE {[scores |-> initial, raised |-> ""]}

IsConstant(v) == Cardinality(Range(v)) <= 1

\* scipy's spearmanr: nan when either input is constant, else a correlation.
spearmanr(a, b) == IF IsConstant(a) \/ IsConstant(b) THEN {NaN} ELSE LibraryScores

\* The slip of adding a nan correlation as it is.
semantic_relatedness_precise_nan(subject, corr) ==
    FSum([i \in DOMAIN subject |-> FDiv(corr[i], Len(subject))])

\* semantic_relatedness_precise with both score matrices given; corr[i] is
\* what spearmanr returned for row i.
semantic_relatedness_precise(subject, corr) ==
    FSum([i \in DOMAIN subject |->
            FDiv(IF IsNaN(corr[i]) THEN Zero ELSE corr[i], Len(subject))])

\* What spearmanr may return for the rows, one value a row.
Correlations(subject, model) ==
    {c \in [DOMAIN subject -> LibraryScores \cup {NaN}] :
        \A i \in DOMAIN subject : c[i] \in spearmanr(subject[i], model[i])}

\* Every SR the function may compute.
SemanticRelatedness(subject, model) ==
    {semantic_relatedness_precise(subject, corr) : corr \in Correlations(subject, model)}

\* The slip of scoring a row without a positive as 0 instead of failing.
SessionRetrieval_default(subject, model) ==
    IF MRRRaises(subject)
    THEN {[MRR |-> Zero, MAP |-> Zero, raised |-> ""]}
    ELSE {[MRR    |-> mean_reciprocal_rank(subject, model, tie2),
           MAP    |-> mean_average_precision(subject, get_rankings(model, tie1)),
           raised |-> ""] : tie1 \in TieOrders, tie2 \in TieOrders}

\* Every (MRR, MAP) the session retrieval suite may compute, or the exception
\* it raises: lines 485-499.
SessionRetrieval(subject, model) ==
    IF MRRRaises(subject)
    THEN {[MRR |-> Zero, MAP |-> Zero, raised |-> "ValueError"]}
    ELSE {[MRR    |-> mean_reciprocal_rank(subject, model, tie2),
           MAP    |-> mean_average_precision(subject, get_rankings(model, tie1)),
           raised |-> ""] : tie1 \in TieOrders, tie2 \in TieOrders}

\* The slip of ranking the sessions whenever the scores were computed.
Scoring_unguarded(t, l, feats) ==
    LET initial == [SR |-> Zero, MRR |-> Zero, MAP |-> Zero, raised |-> ""]
    IN  IF "semantic_relatedness" \in t \/ "session_retrieval" \in t
        THEN IF Mismatch(l, feats)
             THEN {[SR |-> Zero, MRR |-> Zero, MAP |-> Zero,
                    raised |-> IF "semantic_relatedness" \in t
                               THEN "ValueError" ELSE "IndexError"]}
             ELSE
             LET scores  == precalculate_scores_from_subject_and_model(l, feats)
                 subject == skip_diag_strided(scores.subject)
                 model   == skip_diag_strided(scores.model)
             IN  {[SR |-> sr, MRR |-> s.MRR, MAP |-> s.MAP, raised |-> s.raised] :
                     sr \in IF "semantic_relatedness" \in t
                            THEN SemanticRelatedness(subject, model)
                            ELSE {initial.SR},
                     s \in SessionRetrieval(subject, model)}
        ELSE {initial}

\* Lines 428-429 and 466-499: every (SR, MRR, MAP) the function may hold after
\* the scoring block, or the exception the block raises.  With as many
\* labels as feature rows only mean_reciprocal_rank raises.  With different
\* numbers the score matrices have different shapes: spearmanr refuses the
\* first pair of rows with a ValueError, and without it take_along_axis in
\* mean_reciprocal_rank refuses the index with an IndexError.
Scoring(t, l, feats) ==
    LET initial == [SR |-> Zero, MRR |-> Zero, MAP |-> Zero, raised |-> ""]
    IN  IF "semantic_relatedness" \in t \/ "session_retrieval" \in t
        THEN IF Mismatch(l, feats)
             THEN {[SR |-> Zero, MRR |-> Zero, MAP |-> Zero,
                    raised |-> IF "semantic_relatedness" \in t
                               THEN "ValueError" ELSE "IndexError"]}
             ELSE
             LET scores  == precalculate_scores_from_subject_and_model(l, feats)
                 subject == skip_diag_strided(scores.subject)
                 model   == skip_diag_strided(scores.model)
             IN  {[SR |-> sr, MRR |-> s.MRR, MAP |-> s.MAP, raised |-> s.raised] :
                     sr \in IF "semantic_relatedness" \in t
                            THEN SemanticRelatedness(subject, model)
                            ELSE {initial.SR},
                     s \in IF "session_retrieval" \in t
                           THEN SessionRetrieval(subject, model)
                           ELSE {initial}}
        ELSE {initial}

\* ||x - y||^2 of two unit vectors: 2 - 2 cos.
SquaredDistance(feats, i, j) == 2 - feature_cosine_matrix(feats)[i][j]

\* align_loss summed over the rows of align_uniform: the squared distances of
\* the ordered pairs (i, j) whose indicator is 1, and the number of such pairs.
align_loss(feats, indicator) ==
    LET pairs == {p \in (DOMAIN indicator) \X (DOMAIN indicator) : indicator[p[1]][p[2]] = 1}
    IN  [sum   |-> SumOver(pairs, [p \in pairs |-> SquaredDistance(feats, p[1], p[2])]),
         count |-> Cardinality(pairs)]

\* x / n where x is a sum of squared distances: nan for 0 / 0.
Average(x, n) == IF n = 0 THEN NaN ELSE FDiv(FromInt(x), n)

\* A variant of align_uniform that leaves the pair of a session with itself
\* out of the positive pairs.
align_uniform_noself(l, feats) ==
    LET scores_from_subject0 ==
            [i \in DOMAIN l |-> [j \in DOMAIN l |-> IF l[i] = l[j] /\ i # j THEN 1 ELSE 0]]
        opposite == [i \in DOMAIN l |-> [j \in DOMAIN l |-> IF l[i] = l[j] THEN 0 ELSE 1]]
        pos == align_loss(feats, scores_from_subject0)
        neg == align_loss(feats, opposite)
        positive_alignment == Average(pos.sum, pos.count)
        negative_alignment == Average(neg.sum, neg.count)
    IN  {[alignment |-> positive_alignment,
          adjusted_alignment |-> FSub(positive_alignment, negative_alignment),
          uniformity |-> uniform] : uniform \in LibraryScores}

\* align_uniform on the cpu, for unit vectors whose squared distances are
\* whole numbers.  The uniformity (the logarithm of a mean of exponentials)
\* is left to torch.
align_uniform(l, feats) ==
    LET scores_from_subject0 ==
            [i \in DOMAIN l |-> [j \in DOMAIN l |-> IF l[i] = l[j] THEN 1 ELSE 0]]
        opposite == [i \in DOMAIN l |-> [j \in DOMAIN l |-> 1 - scores_from_subject0[i][j]]]
        pos == align_loss(feats, scores_from_subject0)
        neg == align_loss(feats, opposite)
        positive_alignment == Average(pos.sum, pos.count)
        negative_alignment == Average(neg.sum, neg.count)
    IN  {[alignment |-> positive_alignment,
          adjusted_alignment |-> FSub(positive_alignment, negative_alignment),
          uniformity |-> uniform] : uniform \in LibraryScores}

\* Lines 430 and 509-522; torch refuses to subtract feature rows of one
\* number from feature rows of another with a RuntimeError.
AlignUniform(t, l, feats) ==
    LET initial == [alignment |-> Zero, adjusted_alignment |-> Zero, uniformity |-> Zero]
    IN  IF "align_uniform" \in t
        THEN IF Mismatch(l, feats)
             THEN {[scores |-> initial, raised |-> "RuntimeError"]}
             ELSE {[scores |-> a, raised |-> ""] : a \in align_uniform(l, feats)}
        ELSE {[scores |-> initial, raised |-> ""]}

\* Class ids of n sessions of at most two classes.
TwoClassVectors(n) == {l \in ClassVectors(n) : Cardinality(Range(l)) <= 2}

\* Feature rows of another number than the labels.
Mismatched(l) ==
    {[i \in 1 .. m |-> ClassDir(0)] : m \in (2 .. MaxBatch) \ {Len(l)}}

\* The result of an earlier call, which the caller still holds.
Previous == EvaluationResult([f \in Range(Fields) |-> IF f = "purity" THEN One ELSE Zero])

InitEval ==
    /\ tasks \in SUBSET TaskNames
    /\ \E n \in 2 .. MaxBatch : labels \in TwoClassVectors(n)
    /\ features \in OneTurned(labels) \cup Mismatched(labels)
    /\ returned = None /\ raised = ""
    /\ results = [r \in {"previous"} |-> Previous] /\ call = None
    /\ scores_from_subject = None /\ scores_from_model = None
    /\ rankings = None /\ MRR = None /\ MAP = None
    /\ DiagIdle /\ ClusterIdle /\ SRIdle

\* The EvaluationResult of lines 546-557.
Result(c, s, a) ==
    EvaluationResult(
        [f \in Range(Fields) |->
            CASE f = "RI" -> c.RI
              [] f = "NMI" -> c.NMI
              [] f = "acc" -> c.acc
              [] f = "purity" -> c.purity
              [] f = "SR" -> s.SR
              [] f = "MRR" -> s.MRR
              [] f = "MAP" -> s.MAP
              [] f = "alignment" -> a.alignment
              [] f = "adjusted_alignment" -> a.adjusted_alignment
              [] f = "uniformity" -> a.uniformity
              [] OTHER -> Zero])

\* A variant of the function that catches what a suite raises and returns
\* what it has so far.
Evaluate_swallow ==
    /\ returned = None /\ raised = ""
    /\ \E c \in Clustering(tasks, labels, features) :
       \E s \in Scoring(tasks, labels, features) :
       \E a \in AlignUniform(tasks, labels, features) :
          /\ returned' = Result(c.scores, s, a.scores)
          /\ raised' = raised
    /\ UNCHANGED <<tasks, labels, features, scores_from_subject, scores_from_model,
                   rankings, MRR, MAP, diagVars, clusterVars, resultVars, srVars>>

\* One call of evaluation_during_training, from its first line to its return
\* or to the exception that leaves it.  The suites run in the order
\* clustering, scoring, visualization, align_uniform, and the first exception
\* ends the call.  The visualization suite does nothing without an output
\* file name, and nothing is reported without a logger.
Evaluate ==
    /\ returned = None /\ raised = ""
    /\ \E c \in Clustering(tasks, labels, features) :
          IF c.raised # ""
          THEN raised' = c.raised /\ returned' = returned
          ELSE \E s \in Scoring(tasks, labels, features) :
                  IF s.raised # ""
                  THEN raised' = s.raised /\ returned' = returned
                  ELSE \E a \in AlignUniform(tasks, labels, features) :
                          IF a.raised # ""
                          THEN raised' = a.raised /\ returned' = returned
                          ELSE /\ returned' = Result(c.scores, s, a.scores)
                               /\ raised' = raised
    /\ UNCHANGED <<tasks, labels, features, scores_from_subject, scores_from_model,
                   rankings, MRR, MAP, diagVars, clusterVars, resultVars, srVars>>

NextEval == Evaluate

SpecEval == InitEval /\ [][NextEval]_vars

\* The fields a suite fills.
SuiteFields ==
    [clustering           |-> {"RI", "NMI", "acc", "purity"},
     semantic_relatedness |-> {"SR"},
     session_retrieval    |-> {"MRR", "MAP"},
     align_uniform        |-> {"alignment", "adjusted_alignment", "uniformity"}]

\* C10: in the EvaluationResult that evaluation_during_training returns,
\* every metric of a suite that was not requested is 0: RI, NMI, acc, purity
\* without 'clustering', SR without 'semantic_relatedness', MRR and MAP
\* without 'session_retrieval', alignment, adjusted_alignment and uniformity
\* without 'align_uniform'.
C10_UnrequestedZero ==
    returned # None =>
        \A suite \in DOMAIN SuiteFields :
            suite \notin tasks =>
                \A f \in SuiteFields[suite] :
                    returned.attrs[f] = Zero /\ returned.entries[f] = Zero

\* A call for semantic relatedness and alignment only: both are non-zero and
\* MRR and MAP are 0 although the score matrices were computed.
C10_Witness ==
    /\ returned # None
    /\ tasks = {"semantic_relatedness", "align_uniform"}
    /\ returned.attrs["SR"] # Zero /\ returned.attrs["alignment"] # Zero
    /\ returned.attrs["uniformity"] # Zero
    /\ \A f \in {"RI", "NMI", "acc", "purity", "MRR", "MAP"} : returned.attrs[f] = Zero

(***************************************************************************)
(* semantic_relatedness_precise on its own, after the scores are computed. *)
(***************************************************************************)

InitSR ==
    /\ \E n \in 2 .. MaxBatch : labels \in ClassVectors(n)
    /\ features \in Embeddings(labels)
    /\ scores_from_subject = None /\ scores_from_model = None
    /\ rankings = None /\ MRR = None /\ MAP = None /\ raised = ""
    /\ DiagIdle /\ ClusterIdle /\ ResultIdle /\ EvalIdle /\ SRIdle

\* Lines 476-480.
SemanticRelatednessPrecise ==
    /\ scores_from_subject # None /\ SR = None
    /\ \E corr \in Correlations(scores_from_subject, scores_from_model) :
          /\ correlations' = corr
          /\ SR' = semantic_relatedness_precise(scores_from_subject, corr)
    /\ UNCHANGED <<rankVars, diagVars, clusterVars, resultVars, evalVars>>

NextSR == Precalculate \/ SemanticRelatednessPrecise

SpecSR == InitSR /\ [][NextSR]_vars

\* C11: when the number of feature rows differs from the number of labels the
\* call fails with an InvalidInputError, raised before any suite runs: it
\* returns no result and raises nothing else.
C11_MismatchRejected ==
    Mismatch(labels, features) =>
        returned = None /\ raised \in {"", "InvalidInputError"}

\* C12: when 'clustering' is requested and the labels hold fewer than 2
\* distinct values the call fails with an InvalidInputError instead of
\* returning RI, NMI, acc and purity.
C12_FewLabelsRejected ==
    ("clustering" \in tasks /\ Cardinality(Range(labels)) < 2) =>
        returned = None /\ raised \in {"", "InvalidInputError"}

\* C13: a task set holding a name outside clustering, semantic_relatedness,
\* session_retrieval, align_uniform and visualization is rejected with an
\* InvalidInputError and never silently ignored.
C13_UnknownTaskRejected ==
    tasks \ KnownTasks # {} =>
        returned = None /\ raised \in {"", "InvalidInputError"}

\* Some session is the only one of its class.
UniqueLabel == \E i \in DOMAIN labels : \A j \in DOMAIN labels \ {i} : labels[j] # labels[i]

\* Some requested suite cannot complete on these inputs.
SuiteFails ==
    \/ /\ Mismatch(labels, features)
       /\ tasks \cap {"clustering", "semantic_relatedness", "session_retrieval",
                      "align_uniform"} # {}
    \/ "session_retrieval" \in tasks /\ UniqueLabel

\* C14: a call in which a suite raises returns no result; a result is
\* returned only when every requested suite completed; and the result the
\* caller holds from an earlier call is as it was.
C14_NoPartialResult ==
    /\ raised # "" => returned = None
    /\ returned # None => ~SuiteFails
    /\ results["previous"] = Previous

\* Clustering completed, then session retrieval raised: nothing is returned.
C14_Witness ==
    /\ raised = "ValueError" /\ returned = None
    /\ {"clustering", "session_retrieval"} \subseteq tasks
    /\ ~Mismatch(labels, features)
    /\ results["previous"] = Previous

\* The rank correlation of row i is undefined: one of the two rows is constant.
Degenerate(i) == IsConstant(scores_from_subject[i]) \/ IsConstant(scores_from_model[i])

\* The rows with a defined correlation, in order.
DefinedRows ==
    SelectSeq([i \in DOMAIN scores_from_subject |-> i], LAMBDA i : ~Degenerate(i))

\* C15: a row whose rank correlation is undefined adds exactly 0 and does
\* not end the computation: SR is the sum, over the rows with a defined
\* correlation, of the correlation over the number of all rows, and is never
\* nan.
C15_DegenerateRowsAddZero ==
    SR # None =>
        /\ ~IsNaN(SR)
        /\ SR = FSum([k \in DOMAIN DefinedRows |->
                        FDiv(correlations[DefinedRows[k]], Len(scores_from_subject))])
        /\ (\A i \in DOMAIN scores_from_subject : Degenerate(i)) => SR = Zero

\* A non-zero SR from rows of which one is degenerate and lies before a
\* defined one.
C15_Witness ==
    /\ SR # None /\ SR # Zero
    /\ \E i, j \in DOMAIN scores_from_subject :
          i < j /\ Degenerate(i) /\ IsNaN(correlations[i]) /\ correlations[j] = One

\* C16: every row of get_rankings is a permutation of 1..N-1, and a column
\* with a strictly larger similarity has a strictly smaller rank; only the
\* order of tied columns is open.
C16_RankingsPermutation ==
    rankings # None =>
        \A i \in DOMAIN rankings :
            /\ Len(rankings[i]) = Len(scores_from_model[i])
            /\ Range(rankings[i]) = 1 .. Len(scores_from_model[i])
            /\ \A j, k \in DOMAIN rankings[i] :
                   scores_from_model[i][j] > scores_from_model[i][k] =>
                       rankings[i][j] < rankings[i][k]

\* Rankings of a row of three with two tied columns below the third, the
\* tied ones ranked right to left.
C16_Witness ==
    /\ rankings # None
    /\ \E i \in DOMAIN rankings : \E j, k, m \in DOMAIN rankings[i] :
          /\ j < k
          /\ scores_from_model[i][j] = scores_from_model[i][k]
          /\ scores_from_model[i][m] > scores_from_model[i][j]
          /\ rankings[i][k] < rankings[i][j]

\* The ranks of the positives of row i.
PositiveRanks(i) ==
    {rankings[i][j] : j \in {c \in DOMAIN rankings[i] : scores_from_subject[i][c] = 1}}

\* AP_i: the mean over the positives, in increasing rank order
\* r_1 < ... < r_m, of k / r_k.
AveragePrecision(i) ==
    LET R     == PositiveRanks(i)
        r     == SortedSeq(R)
        terms == [k \in DOMAIN r |-> FDiv(FromInt(k), r[k])]
    IN  FDiv(FSum(terms), Len(terms))

\* C17: when every row has a positive, mean_average_precision is the sum over
\* the rows of AP_i / N_rows: a row weighs 1 / N_rows however many positives
\* it has.
C17_MacroAverage ==
    (MAP # None /\ \A i \in DOMAIN rankings : PositiveRanks(i) # {}) =>
        MAP = FSum([i \in DOMAIN rankings |->
                      FDiv(AveragePrecision(i), Len(rankings))])

\* Rows of one and of two positives, with different average precisions.
C17_Witness ==
    /\ MAP # None
    /\ \E i, j \in DOMAIN rankings :
          /\ Cardinality(PositiveRanks(i)) = 1
          /\ Cardinality(PositiveRanks(j)) > 1
          /\ AveragePrecision(i) # AveragePrecision(j)
          /\ AveragePrecision(j) # One

\* The ordered pairs of sessions, a session with itself included, whose
\* labels are equal (same = TRUE) or different (same = FALSE).
LabelPairs(same) ==
    {p \in (DOMAIN labels) \X (DOMAIN labels) : (labels[p[1]] = labels[p[2]]) = same}

\* The sum of ||F[i] - F[j]||^2 over the pairs of S, over their number.
MeanSquaredDistance(S) ==
    IF S = {} THEN NaN
    ELSE FDiv(FromInt(SumOver(S, [p \in S |-> SquaredDistance(features, p[1], p[2])])),
              Cardinality(S))

\* C18: the positive alignment of align_uniform is the sum of
\* ||F[i] - F[j]||^2 over all ordered pairs (i, j) of equal labels, the pairs
\* (i, i) included, over the number of these pairs; the negative alignment is
\* the same over the pairs of different labels; the second value returned is
\* the positive alignment minus the negative one.
C18_AlignmentOverOrderedPairs ==
    (returned # None /\ "align_uniform" \in tasks) =>
        /\ returned.attrs["alignment"] = MeanSquaredDistance(LabelPairs(TRUE))
        /\ returned.attrs["adjusted_alignment"] =
               FSub(MeanSquaredDistance(LabelPairs(TRUE)),
                    MeanSquaredDistance(LabelPairs(FALSE)))

\* Two classes, one session turned away from its class: the positive
\* alignment is above 0 and below the negative one.
C18_Witness ==
    /\ returned # None /\ "align_uniform" \in tasks
    /\ LabelPairs(FALSE) # {}
    /\ returned.attrs["alignment"] \notin {Zero, NaN}
    /\ IsNeg(returned.attrs["adjusted_alignment"])

\* C20: when some label occurs once, mean_reciprocal_rank raises on the row
\* of that session, which has no positive, so evaluation_during_training
\* asked for 'session_retrieval' returns no EvaluationResult.
C20_LonelySessionRaises ==
    ("session_retrieval" \in tasks /\ UniqueLabel) =>
        /\ returned = None
        /\ (raised # "" /\ ~Mismatch(labels, features)) => raised = "ValueError"

\* A call for session retrieval alone, on sessions one of which is alone in
\* its class, has ended with the ValueError of list.index.
C20_Witness ==
    /\ tasks = {"session_retrieval"}
    /\ UniqueLabel /\ ~Mismatch(labels, features)
    /\ raised = "ValueError" /\ returned = None

\* C19: for vectors of non-negative integers of one length, purity_score is
\* never below get_accuracy: voting every cluster its majority label scores
\* at least what the best one-to-one assignment of clusters to labels does.
C19_PurityAtLeastAccuracy ==
    (acc # None /\ purity # None) => ~FLess(purity, acc)

\* More clusters than classes: every cluster is pure, but only one of them
\* can be assigned to the class, and the purity is above the accuracy.
C19_Witness ==
    /\ acc # None /\ purity # None
    /\ Cardinality(Range(y_pred)) > Cardinality(Range(y_true))
    /\ FLess(acc, purity)

====
